---- MODULE Spec2Model ----
(***************************************************************************)
(* A model of vJumpToDFU (src/stm32xx_dfu.c) and of the WR_ALL_REGS macro  *)
(* it uses, running on the interrupt hardware of the device selected in    *)
(* src/stm32xx_hal.h (STM32F407xx, a Cortex-M4: PRIMASK, SysTick, NVIC).   *)
(*                                                                         *)
(* A 32-bit register is the set of its bit positions that are 1: 0 is {}   *)
(* and 0xFFFFFFFF is 0 .. 31.  The two words of the descriptor are         *)
(* integers.                                                               *)
(***************************************************************************)
EXTENDS Integers, Sequences, FiniteSets, TLC

VARIABLES
  pc,          \* the statement of vJumpToDFU that executes next
  build,       \* where the compiler placed the load of pulMSP_PC[1]
  nregs,       \* sizeof(_regs_) / sizeof((_regs_)[0]) of ICER and ICPR
  desc,        \* the descriptor as it was when vJumpToDFU was called
  entryMask,   \* PRIMASK as it was when vJumpToDFU was called
  mem,         \* the descriptor's memory now: <<pulMSP_PC[0], pulMSP_PC[1]>>
  primask,     \* PRIMASK: 1 = maskable interrupts masked, 0 = unmasked
  ctrl,        \* SysTick->CTRL, the set of its bits that are 1
  tickPending, \* the SysTick exception is pending (ICSR.PENDSTSET)
  nvicEnable,  \* interrupt enable state, what NVIC->ICER[i] reads
  nvicPending, \* interrupt pending state, what NVIC->ICPR[i] reads
  addr,        \* the loop variable of WR_ALL_REGS
  msp,         \* the main stack pointer
  r1,          \* the register that holds an early load of pulMSP_PC[1]
  jumpTarget,  \* the address control was transferred to, -1 before
  trace,       \* the side effects of vJumpToDFU so far, in order
  reads,       \* the reads of the descriptor: <<index, MSP already written>>
  handlerLog,  \* the handlers that ran: <<which, pc at which it ran>>
  raises,      \* interrupt requests raised by peripherals since the call
  sysTickLoad, \* SysTick->LOAD, the reload value register
  permStart,   \* any-order block write: the blocks before it, else <<>>
  permDone     \* any-order block write: the registers written so far

vars == <<pc, build, nregs, desc, entryMask, mem, primask, ctrl, tickPending, nvicEnable,
          nvicPending, addr, msp, r1, jumpTarget, trace, reads, handlerLog,
          raises, sysTickLoad, permStart, permDone>>

(***************************************************************************)
(* Bounds of the model and values of the program.                          *)
(***************************************************************************)

\* Interrupt requests peripherals raise during one run.
MaxRaises == 1

\* Registers of a block written in every order.
MaxPermRegs == 3

\* 0x20020000UL and 0x08000000UL, the descriptor of the usage example.
ExampleMSP == 537001984
ExamplePC == 134217728

\* The register blocks' sizes: 8 on the Cortex-M4, 1 and 32 on other cores.
BlockSizes == {1, 8, 32}

\* The bit positions of a 32-bit register; 0xffffffffUL and 0x00000000UL.
WordBits == 0 .. 31
AllOnes == WordBits
Zero == {}

\* SysTick->CTRL bits: ENABLE, TICKINT, CLKSOURCE.
CtrlEnable == {0}
CtrlTickInt == {1}
CtrlSamples == {Zero, {0, 2}, {0, 1, 2}}

\* SysTick->LOAD at the call: 0x0002903F, a 1 ms tick at 168 MHz.
ReloadAtCall == (0 .. 5) \cup {12, 15, 17}

\* The descriptors vJumpToDFU is called with.
DescSamples ==
  {<<ExampleMSP, ExamplePC>>, <<ExamplePC, ExampleMSP>>, <<0, 0>>,
   <<2147483647, 1>>}

\* What a corrupted descriptor word holds.
CorruptWord == ExamplePC + 4

\* The stack pointer of the caller, below the top of its stack.
CallerMSP == ExampleMSP - 16

\* Initial contents of an n-register block.
BlockSamples(n) ==
  { [i \in 0 .. n - 1 |-> Zero],
    [i \in 0 .. n - 1 |-> AllOnes],
    [i \in 0 .. n - 1 |-> IF i % 2 = 0 THEN {0, 31} ELSE {5}] }

\* The interrupt lines peripherals raise requests on: <<register, bit>>.
RaiseLines(n) == {<<0, 0>>, <<n - 1, 31>>}

\* One side effect of the operation: <<what, register index, bits, word>>.
Ev(op, idx, bits, word) == <<op, idx, bits, word>>

(***************************************************************************)
(* The hardware.                                                           *)
(***************************************************************************)

\* The enable state of one register after `data` is stored to register
\* `regs` of the NVIC: ICER clears the bits written 1, ISER sets them.
EnableAfter(regs, old, data) ==
  CASE regs = "ICER" -> old \ data
    [] regs = "ISER" -> old \cup data
    [] OTHER -> old

\* The pending state of one register after `data` is stored to `regs`:
\* ICPR clears the bits written 1, ISPR sets them.
PendingAfter(regs, old, data) ==
  CASE regs = "ICPR" -> old \ data
    [] regs = "ISPR" -> old \cup data
    [] OTHER -> old

\* The store with a value that depends on the register before it:
\* (_regs_)[a] = (_data_) & (_regs_)[a - 1].
RegStoreChained(regs, a, data) ==
  /\ nvicEnable' =
       IF a \in DOMAIN nvicEnable
         THEN [nvicEnable EXCEPT ![a] =
                 EnableAfter(regs, @,
                             IF a - 1 \in DOMAIN nvicEnable
                               THEN data \cap nvicEnable[a - 1] ELSE data)]
         ELSE nvicEnable
  /\ nvicPending' =
       IF a \in DOMAIN nvicPending
         THEN [nvicPending EXCEPT ![a] =
                 PendingAfter(regs, @,
                              IF a - 1 \in DOMAIN nvicPending
                                THEN data \cap nvicPending[a - 1] ELSE data)]
         ELSE nvicPending
  /\ trace' = Append(trace, Ev(regs, a, data, 0))

\* (_regs_)[a] = (_data_): the store and what it does to the NVIC. A store
\* past the end of the block reaches no register of the block.
RegStore(regs, a, data) ==
  /\ nvicEnable' = IF a \in DOMAIN nvicEnable
                     THEN [nvicEnable EXCEPT ![a] = EnableAfter(regs, @, data)]
                     ELSE nvicEnable
  /\ nvicPending' = IF a \in DOMAIN nvicPending
                      THEN [nvicPending EXCEPT ![a] = PendingAfter(regs, @, data)]
                      ELSE nvicPending
  /\ trace' = Append(trace, Ev(regs, a, data, 0))

\* The lines that are enabled and pending, and the one the NVIC dispatches
\* (with equal priorities, the lowest interrupt number).
ActiveLines ==
  UNION { {<<i, b>> : b \in nvicEnable[i] \cap nvicPending[i]} :
            i \in DOMAIN nvicEnable }

LineNumber(l) == 32 * l[1] + l[2]

NextLine == CHOOSE l \in ActiveLines :
              \A m \in ActiveLines : LineNumber(l) <= LineNumber(m)

\* An exception the processor takes before the next instruction of the
\* thread: SysTick or an enabled peripheral line is pending and PRIMASK is 0.
Deliverable ==
  /\ primask = 0
  /\ \/ tickPending
     \/ \E i \in DOMAIN nvicEnable : nvicEnable[i] \cap nvicPending[i] # {}

\* The statements of vJumpToDFU, and where control is after it.
RunPcs == {"disable_irq", "systick", "icer", "icpr", "enable_irq", "set_msp",
           "jump", "dest", "loop", "returned"}

\* The SysTick counter reaches zero: with ENABLE and TICKINT set the SysTick
\* exception becomes pending, whatever PRIMASK is.
TickExpire ==
  /\ pc \in RunPcs
  /\ (CtrlEnable \cup CtrlTickInt) \subseteq ctrl
  /\ ~tickPending
  /\ tickPending' = TRUE
  /\ UNCHANGED <<pc, build, nregs, desc, entryMask, mem, primask, ctrl, nvicEnable,
                 nvicPending, addr, msp, r1, jumpTarget, trace, reads,
                 handlerLog, raises,
                 sysTickLoad, permStart, permDone>>

\* The processor takes the pending SysTick exception: only with PRIMASK 0.
\* Neither SysTick->CTRL = 0 nor a store to ICPR clears this pending state.
SysTickHandler ==
  /\ pc \in RunPcs
  /\ primask = 0
  /\ tickPending
  /\ tickPending' = FALSE
  /\ handlerLog' = handlerLog \cup {<<"SysTick", pc>>}
  /\ UNCHANGED <<pc, build, nregs, desc, entryMask, mem, primask, ctrl, nvicEnable,
                 nvicPending, addr, msp, r1, jumpTarget, trace, reads,
                 raises,
                 sysTickLoad, permStart, permDone>>

\* A peripheral raises an interrupt request: the line's pending bit is set,
\* whether or not the line is enabled and whatever PRIMASK is.
PeripheralRaise ==
  /\ pc \in RunPcs
  /\ raises < MaxRaises
  /\ \E l \in RaiseLines(nregs) :
       /\ l[2] \notin nvicPending[l[1]]
       /\ nvicPending' = [nvicPending EXCEPT ![l[1]] = @ \cup {l[2]}]
  /\ raises' = raises + 1
  /\ UNCHANGED <<pc, build, nregs, desc, entryMask, mem, primask, ctrl, tickPending,
                 nvicEnable, addr, msp, r1, jumpTarget, trace, reads,
                 handlerLog, sysTickLoad, permStart, permDone>>

\* The processor takes a peripheral interrupt: only with PRIMASK 0 and only
\* for a line that is both enabled and pending.
IRQHandler ==
  /\ pc \in RunPcs
  /\ primask = 0
  /\ \E i \in DOMAIN nvicEnable : nvicEnable[i] \cap nvicPending[i] # {}
  /\ nvicPending' = [nvicPending EXCEPT ![NextLine[1]] = @ \ {NextLine[2]}]
  /\ handlerLog' = handlerLog \cup {<<"IRQ", pc>>}
  /\ UNCHANGED <<pc, build, nregs, desc, entryMask, mem, primask, ctrl, tickPending,
                 nvicEnable, addr, msp, r1, jumpTarget, trace, reads, raises,
                 sysTickLoad, permStart, permDone>>

(***************************************************************************)
(* WR_ALL_REGS.                                                            *)
(***************************************************************************)

\* The loop test with <= for <: one store past the end of the block.
LoopCondOffByOne(a, n) == a <= n

\* addr < sizeof(_regs_) / sizeof((_regs_)[0])
LoopCond(a, n) == a < n

\* One step of WR_ALL_REGS(_regs_, _data_) at statement `here`: the loop
\* test, then either the store and addr++ or the exit to `next`.
WR_ALL_REGS(here, regs, data, next) ==
  /\ pc = here
  /\ ~Deliverable
  /\ IF LoopCond(addr, nregs)
       THEN /\ RegStore(regs, addr, data)
            /\ addr' = addr + 1
            /\ pc' = pc
       ELSE /\ addr' = 0
            /\ pc' = next
            /\ UNCHANGED <<nvicEnable, nvicPending, trace>>
  /\ UNCHANGED <<build, nregs, desc, entryMask, mem, primask, ctrl, tickPending, msp, r1,
                 jumpTarget, reads, handlerLog, raises,
                 sysTickLoad, permStart, permDone>>

(***************************************************************************)
(* vJumpToDFU.                                                             *)
(***************************************************************************)

\* The entry address taken from index 0 of the descriptor.
PcWordSwapped(m) == m[1]

\* pulMSP_PC[0] and pulMSP_PC[1].
MspWord(m) == m[1]
PcWord(m) == m[2]

\* __set_MSP has executed.
MspWritten == \E k \in DOMAIN trace : trace[k][1] = "MSP"

\* vJumpToDFU without its __disable_irq().
DisableIrqMissing ==
  /\ pc = "disable_irq"
  /\ ~Deliverable
  /\ pc' = "systick"
  /\ UNCHANGED <<build, nregs, desc, entryMask, mem, primask, ctrl,
                 tickPending, nvicEnable, nvicPending, addr, msp, r1,
                 jumpTarget, trace, reads, handlerLog, raises,
                 sysTickLoad, permStart, permDone>>

\* __disable_irq();
DisableIrq ==
  /\ pc = "disable_irq"
  /\ ~Deliverable
  /\ primask' = 1
  /\ trace' = Append(trace, Ev("CPSID", 0, Zero, 0))
  /\ pc' = "systick"
  /\ UNCHANGED <<build, nregs, desc, entryMask, mem, ctrl, tickPending, nvicEnable,
                 nvicPending, addr, msp, r1, jumpTarget, reads, handlerLog,
                 raises,
                 sysTickLoad, permStart, permDone>>

\* The SysTick shutdown that also writes 0 to SysTick->LOAD.
SysTickOffAndReload ==
  /\ pc = "systick"
  /\ ~Deliverable
  /\ ctrl' = Zero
  /\ sysTickLoad' = Zero
  /\ trace' = Append(trace, Ev("CTRL", 0, Zero, 0))
  /\ pc' = "icer"
  /\ UNCHANGED <<build, nregs, desc, entryMask, mem, primask, tickPending,
                 nvicEnable, nvicPending, addr, msp, r1, jumpTarget, reads,
                 handlerLog, raises, permStart, permDone>>

\* The SysTick stop behind a wait for the counter to expire:
\* while (!pending) ; SysTick->CTRL = 0x00000000UL;
SysTickOffWaits ==
  /\ pc = "systick"
  /\ ~Deliverable
  /\ tickPending
  /\ ctrl' = Zero
  /\ trace' = Append(trace, Ev("CTRL", 0, Zero, 0))
  /\ pc' = "icer"
  /\ UNCHANGED <<build, nregs, desc, entryMask, mem, primask, tickPending,
                 nvicEnable, nvicPending, addr, msp, r1, jumpTarget, reads,
                 handlerLog, raises, sysTickLoad, permStart, permDone>>

\* SysTick->CTRL = 0x00000000UL;
SysTickOff ==
  /\ pc = "systick"
  /\ ~Deliverable
  /\ ctrl' = Zero
  /\ trace' = Append(trace, Ev("CTRL", 0, Zero, 0))
  /\ pc' = "icer"
  /\ UNCHANGED <<build, nregs, desc, entryMask, mem, primask, tickPending, nvicEnable,
                 nvicPending, addr, msp, r1, jumpTarget, reads, handlerLog,
                 raises,
                 sysTickLoad, permStart, permDone>>

\* The set-enable and set-pending registers in place of the clear ones.
EnableSetRegs == "ISER"
PendingSetRegs == "ISPR"

\* The register blocks the two loops store to.
EnableClearRegs == "ICER"
PendingClearRegs == "ICPR"

\* WR_ALL_REGS(NVIC->ICER, 0xffffffffUL);
ClearEnable == WR_ALL_REGS("icer", EnableClearRegs, AllOnes, "icpr")

\* vJumpToDFU without its second WR_ALL_REGS.
ClearPendingSkipped ==
  /\ pc = "icpr"
  /\ ~Deliverable
  /\ pc' = "enable_irq"
  /\ UNCHANGED <<build, nregs, desc, entryMask, mem, primask, ctrl,
                 tickPending, nvicEnable, nvicPending, addr, msp, r1,
                 jumpTarget, trace, reads, handlerLog, raises,
                 sysTickLoad, permStart, permDone>>

\* The second block write made to the set-enable registers:
\* WR_ALL_REGS(NVIC->ISER, 0xffffffffUL);
ClearPendingSetsEnable == WR_ALL_REGS("icpr", EnableSetRegs, AllOnes, "enable_irq")

\* WR_ALL_REGS(NVIC->ICPR, 0xffffffffUL);
ClearPending == WR_ALL_REGS("icpr", PendingClearRegs, AllOnes, "enable_irq")

\* vJumpToDFU without its __enable_irq().
EnableIrqMissing ==
  /\ pc = "enable_irq"
  /\ ~Deliverable
  /\ pc' = "set_msp"
  /\ UNCHANGED <<build, nregs, desc, entryMask, mem, primask, ctrl,
                 tickPending, nvicEnable, nvicPending, addr, msp, r1,
                 jumpTarget, trace, reads, handlerLog, raises,
                 sysTickLoad, permStart, permDone>>

\* __enable_irq();
EnableIrq ==
  /\ pc = "enable_irq"
  /\ ~Deliverable
  /\ primask' = 0
  /\ trace' = Append(trace, Ev("CPSIE", 0, Zero, 0))
  /\ pc' = "set_msp"
  /\ UNCHANGED <<build, nregs, desc, entryMask, mem, ctrl, tickPending, nvicEnable,
                 nvicPending, addr, msp, r1, jumpTarget, reads, handlerLog,
                 raises,
                 sysTickLoad, permStart, permDone>>

\* __set_MSP(pulMSP_PC[0]); pulMSP_PC is not volatile and __set_MSP is an
\* asm statement without a memory clobber, so the build may also load
\* pulMSP_PC[1] here, before the MSR instruction.
SetMSP ==
  /\ pc = "set_msp"
  /\ ~Deliverable
  /\ msp' = MspWord(mem)
  /\ IF build = "hoisted"
       THEN /\ r1' = PcWord(mem)
            /\ reads' = reads \o <<<<0, MspWritten>>, <<1, MspWritten>>>>
       ELSE /\ r1' = r1
            /\ reads' = Append(reads, <<0, MspWritten>>)
  /\ trace' = Append(trace, Ev("MSP", 0, Zero, MspWord(mem)))
  /\ pc' = "jump"
  /\ UNCHANGED <<build, nregs, desc, entryMask, mem, primask, ctrl, tickPending,
                 nvicEnable, nvicPending, addr, jumpTarget, handlerLog,
                 raises,
                 sysTickLoad, permStart, permDone>>

\* The control transfer behind a check of the entry address: a null entry
\* address makes vJumpToDFU return instead.
JumpValidated ==
  /\ pc = "jump"
  /\ ~Deliverable
  /\ IF PcWord(mem) = 0
       THEN /\ pc' = "returned"
            /\ UNCHANGED <<jumpTarget, reads, trace>>
       ELSE /\ jumpTarget' = PcWord(mem)
            /\ reads' = Append(reads, <<1, MspWritten>>)
            /\ trace' = Append(trace, Ev("JUMP", 0, Zero, jumpTarget'))
            /\ pc' = "dest"
  /\ UNCHANGED <<build, nregs, desc, entryMask, mem, primask, ctrl,
                 tickPending, nvicEnable, nvicPending, addr, msp, r1,
                 handlerLog, raises,
                 sysTickLoad, permStart, permDone>>

\* ((void (*)(void))(pulMSP_PC[1]))(); in program order pulMSP_PC[1] is
\* loaded here, after the MSR instruction.
Jump ==
  /\ pc = "jump"
  /\ ~Deliverable
  /\ IF build = "hoisted"
       THEN /\ jumpTarget' = r1
            /\ reads' = reads
       ELSE /\ jumpTarget' = PcWord(mem)
            /\ reads' = Append(reads, <<1, MspWritten>>)
  /\ trace' = Append(trace, Ev("JUMP", 0, Zero, jumpTarget'))
  /\ pc' = "dest"
  /\ UNCHANGED <<build, nregs, desc, entryMask, mem, primask, ctrl, tickPending,
                 nvicEnable, nvicPending, addr, msp, r1, handlerLog, raises,
                 sysTickLoad, permStart, permDone>>

\* The destination returns, against its contract.
DestReturns ==
  /\ pc = "dest"
  /\ ~Deliverable
  /\ pc' = "loop"
  /\ UNCHANGED <<build, nregs, desc, entryMask, mem, primask, ctrl, tickPending,
                 nvicEnable, nvicPending, addr, msp, r1, jumpTarget, trace,
                 reads, handlerLog, raises,
                 sysTickLoad, permStart, permDone>>

\* vJumpToDFU without its trailing loop: the function returns.
InfiniteLoopFallsThrough ==
  /\ pc = "loop"
  /\ ~Deliverable
  /\ pc' = "returned"
  /\ UNCHANGED <<build, nregs, desc, entryMask, mem, primask, ctrl,
                 tickPending, nvicEnable, nvicPending, addr, msp, r1,
                 jumpTarget, trace, reads, handlerLog, raises,
                 sysTickLoad, permStart, permDone>>

\* while (1) ;
InfiniteLoop ==
  /\ pc = "loop"
  /\ ~Deliverable
  /\ pc' = "loop"
  /\ UNCHANGED <<build, nregs, desc, entryMask, mem, primask, ctrl, tickPending,
                 nvicEnable, nvicPending, addr, msp, r1, jumpTarget, trace,
                 reads, handlerLog, raises,
                 sysTickLoad, permStart, permDone>>

\* The state in which the first instruction of vJumpToDFU executes, in
\* thread mode: an exception the processor can take has been taken before.
Init ==
  /\ pc = "disable_irq"
  /\ build \in {"program", "hoisted"}
  /\ nregs \in BlockSizes
  /\ desc \in DescSamples
  /\ mem = desc
  /\ primask \in {0, 1}
  /\ ctrl \in CtrlSamples
  /\ tickPending \in BOOLEAN
  /\ nvicEnable \in BlockSamples(nregs)
  /\ nvicPending \in BlockSamples(nregs)
  /\ entryMask = primask
  /\ addr = 0
  /\ msp = CallerMSP
  /\ r1 = -1
  /\ jumpTarget = -1
  /\ trace = <<>>
  /\ reads = <<>>
  /\ handlerLog = {}
  /\ raises = 0
  /\ sysTickLoad = ReloadAtCall
  /\ permStart = <<>>
  /\ permDone = {}
  /\ ~Deliverable

Next ==
  \/ DisableIrq
  \/ SysTickOff
  \/ ClearEnable
  \/ ClearPending
  \/ EnableIrq
  \/ SetMSP
  \/ Jump
  \/ DestReturns
  \/ InfiniteLoop
  \/ TickExpire
  \/ SysTickHandler
  \/ PeripheralRaise
  \/ IRQHandler

Spec == Init /\ [][Next]_vars

\* The statements of vJumpToDFU up to the control transfer.
Thread ==
  \/ DisableIrq
  \/ SysTickOff
  \/ ClearEnable
  \/ ClearPending
  \/ EnableIrq
  \/ SetMSP
  \/ Jump

\* The processor executes the next instruction of the thread whenever no
\* exception is due, which is the case again and again as every handler
\* returns; a deliverable exception is taken.
SpecLive ==
  /\ Spec
  /\ SF_vars(Thread)
  /\ WF_vars(SysTickHandler)
  /\ WF_vars(IRQHandler)

(***************************************************************************)
(* The descriptor's memory is overwritten right after the stack-pointer    *)
(* write: the old stack, where a caller's local descriptor lives, is no    *)
(* longer the operation's own.                                             *)
(***************************************************************************)

CorruptDescriptor ==
  /\ pc = "jump"
  /\ MspWritten
  /\ mem = desc
  /\ mem' = <<CorruptWord, CorruptWord>>
  /\ UNCHANGED <<pc, build, nregs, desc, entryMask, primask, ctrl, tickPending,
                 nvicEnable, nvicPending, addr, msp, r1, jumpTarget, trace,
                 reads, handlerLog, raises,
                 sysTickLoad, permStart, permDone>>

NextCorrupt == Next \/ CorruptDescriptor

SpecCorrupt == Init /\ [][NextCorrupt]_vars

(***************************************************************************)
(* The two clear steps of vJumpToDFU, each applied twice in a row to a     *)
(* register block with no other activity.                                  *)
(***************************************************************************)

TwiceEnableFirst == WR_ALL_REGS("t_enable1", EnableClearRegs, AllOnes, "t_enable2")

TwiceEnableSecond == WR_ALL_REGS("t_enable2", EnableClearRegs, AllOnes, "t_pending1")

TwicePendingFirst == WR_ALL_REGS("t_pending1", PendingClearRegs, AllOnes, "t_pending2")

TwicePendingSecond == WR_ALL_REGS("t_pending2", PendingClearRegs, AllOnes, "t_done")

InitTwice ==
  /\ pc = "t_enable1"
  /\ build = "program"
  /\ nregs \in BlockSizes
  /\ desc \in DescSamples
  /\ mem = desc
  /\ primask = 1
  /\ ctrl = Zero
  /\ tickPending = FALSE
  /\ nvicEnable \in BlockSamples(nregs)
  /\ nvicPending \in BlockSamples(nregs)
  /\ entryMask = primask
  /\ addr = 0
  /\ msp = CallerMSP
  /\ r1 = -1
  /\ jumpTarget = -1
  /\ trace = <<>>
  /\ reads = <<>>
  /\ handlerLog = {}
  /\ raises = 0
  /\ sysTickLoad = ReloadAtCall
  /\ permStart = <<>>
  /\ permDone = {}

NextTwice ==
  \/ TwiceEnableFirst
  \/ TwiceEnableSecond
  \/ TwicePendingFirst
  \/ TwicePendingSecond

SpecTwice == InitTwice /\ [][NextTwice]_vars

(***************************************************************************)
(* The block register write with its N stores made in any order.           *)
(***************************************************************************)

\* One store of the block write to a register not yet written, or the end
\* of the block write when all are written.
WriteAnyOrder(here, regs, data, next) ==
  /\ pc = here
  /\ IF permDone # DOMAIN nvicEnable
       THEN /\ \E a \in (DOMAIN nvicEnable) \ permDone :
                 /\ RegStore(regs, a, data)
                 /\ permDone' = permDone \cup {a}
            /\ pc' = pc
       ELSE /\ permDone' = {}
            /\ pc' = next
            /\ UNCHANGED <<nvicEnable, nvicPending, trace>>
  /\ UNCHANGED <<build, nregs, desc, entryMask, mem, primask, ctrl,
                 tickPending, addr, msp, r1, jumpTarget, reads, handlerLog,
                 raises, sysTickLoad, permStart>>

PermEnable == WriteAnyOrder("p_enable", EnableClearRegs, AllOnes, "p_pending")

PermPending == WriteAnyOrder("p_pending", PendingClearRegs, AllOnes, "p_done")

InitPerm ==
  /\ pc = "p_enable"
  /\ build = "program"
  /\ nregs \in 1 .. MaxPermRegs
  /\ desc = <<ExampleMSP, ExamplePC>>
  /\ mem = desc
  /\ primask = 1
  /\ ctrl = Zero
  /\ tickPending = FALSE
  /\ nvicEnable \in BlockSamples(nregs)
  /\ nvicPending \in BlockSamples(nregs)
  /\ entryMask = primask
  /\ addr = 0
  /\ msp = CallerMSP
  /\ r1 = -1
  /\ jumpTarget = -1
  /\ trace = <<>>
  /\ reads = <<>>
  /\ handlerLog = {}
  /\ raises = 0
  /\ sysTickLoad = ReloadAtCall
  /\ permStart = [enable |-> nvicEnable, pending |-> nvicPending]
  /\ permDone = {}

NextPerm ==
  \/ PermEnable
  \/ PermPending

SpecPerm == InitPerm /\ [][NextPerm]_vars

(***************************************************************************)
(* Properties.                                                             *)
(***************************************************************************)

\* The statements after the control transfer.
Transferred == {"dest", "loop", "returned"}

\* The statements from the global interrupt disable (done) to the global
\* interrupt enable (still to do).
MaskedWindow == {"systick", "icer", "icpr", "enable_irq"}

IsPrefix(s, t) == Len(s) <= Len(t) /\ SubSeq(t, 1, Len(s)) = s

AllClear(block) == \A i \in DOMAIN block : block[i] = Zero

\* The side effects one call is to produce for descriptor d and blocks of n
\* registers.
ExpectedTrace(d, n) ==
  <<Ev("CPSID", 0, Zero, 0), Ev("CTRL", 0, Zero, 0)>>
    \o [k \in 1 .. n |-> Ev("ICER", k - 1, AllOnes, 0)]
    \o [k \in 1 .. n |-> Ev("ICPR", k - 1, AllOnes, 0)]
    \o <<Ev("CPSIE", 0, Zero, 0), Ev("MSP", 0, Zero, d[1]),
         Ev("JUMP", 0, Zero, d[2])>>

\* C1: the side effects of one call are, in this order and with none
\* skipped, repeated or added: interrupt disable, SysTick control written 0,
\* every enable-clear register written 0xFFFFFFFF, every pending-clear
\* register written 0xFFFFFFFF, interrupt enable, stack pointer set to d[0],
\* control transfer to d[1].
C1_ExactSequence ==
  /\ IsPrefix(trace, ExpectedTrace(desc, nregs))
  /\ pc \in Transferred => trace = ExpectedTrace(desc, nregs)

C1_Witness ==
  /\ pc = "dest"
  /\ nregs = 8
  /\ desc = <<ExampleMSP, ExamplePC>>
  /\ Len(trace) = 21
  /\ jumpTarget = ExamplePC

\* C2: vJumpToDFU never returns: once the destination has returned, control
\* stays in the empty loop and the operation writes no register, no stack
\* pointer and makes no second control transfer.
C2_NeverReturns ==
  /\ [](pc # "returned")
  /\ [][pc = "loop" =>
          /\ pc' = "loop"
          /\ trace' = trace
          /\ msp' = msp
          /\ jumpTarget' = jumpTarget
          /\ ctrl' = ctrl
          /\ primask' = primask
          /\ nvicEnable' = nvicEnable]_vars

C2_Witness == pc = "loop" /\ jumpTarget = desc[2]

\* The positions in `reads` of the reads of word i of the descriptor.
ReadsOf(i) == {k \in DOMAIN reads : reads[k][1] = i}

\* C3: each word of the descriptor is read exactly once and before the
\* main stack pointer is overwritten, so that overwriting the descriptor's
\* memory after the stack-pointer write does not change the target of the
\* control transfer.
C3_DescriptorReadBeforeMSP ==
  /\ \A k \in DOMAIN reads : ~reads[k][2]
  /\ pc \in Transferred =>
       /\ Cardinality(ReadsOf(0)) = 1
       /\ Cardinality(ReadsOf(1)) = 1
       /\ jumpTarget = desc[2]

\* C4: once vJumpToDFU has disabled interrupts, the SysTick handler never
\* runs again, neither during the operation nor after the control transfer.
C4_SysTickNeverRuns ==
  \A h \in handlerLog : h[1] = "SysTick" => h[2] = "disable_irq"

\* C5: from the global interrupt enable to the control transfer every
\* enable bit of every NVIC register is clear and no peripheral interrupt
\* handler runs, also when a peripheral sets a pending flag again.
C5_NoPeripheralHandler ==
  /\ pc \in {"set_msp", "jump"} => primask = 0 /\ AllClear(nvicEnable)
  /\ \A h \in handlerLog : h[1] = "IRQ" => h[2] \notin {"set_msp", "jump"}

C5_Witness ==
  /\ pc = "jump"
  /\ primask = 0
  /\ raises > 0
  /\ ~AllClear(nvicPending)

C7_NoHandlerWhileMasked ==
  /\ pc \in MaskedWindow => primask = 1
  /\ \A h \in handlerLog : h[2] \notin MaskedWindow

C7_Witness ==
  /\ pc = "icer"
  /\ addr = 0
  /\ entryMask = 0
  /\ tickPending
  /\ ActiveLines # {}

\* C8: at the control transfer interrupts are globally unmasked and the
\* SysTick control register is 0, whatever they were at the call.
C8_StateAtTransfer ==
  pc \in {"jump", "dest"} => primask = 0 /\ ctrl = Zero

C8_Witness ==
  /\ pc = "dest"
  /\ entryMask = 1
  /\ <<"SysTick", "set_msp">> \in handlerLog
  /\ primask = 0
  /\ ctrl = Zero

\* The stores the operation made to register a of block `regs`.
StoresTo(regs, a) ==
  {k \in DOMAIN trace : trace[k][1] = regs /\ trace[k][2] = a}

\* The stores the operation made to block `regs`.
StoresIn(regs) == {k \in DOMAIN trace : trace[k][1] = regs}

BlockWritten(regs) ==
  /\ \A a \in 0 .. nregs - 1 :
       /\ Cardinality(StoresTo(regs, a)) = 1
       /\ \A k \in StoresTo(regs, a) : trace[k][3] = AllOnes
  /\ \A k \in StoresIn(regs) : trace[k][2] \in 0 .. nregs - 1

\* C9: the block register write stores the value to each of the N
\* registers of the block exactly once and to no location outside the
\* block, for N = 1, 8 and 32.
C9_BlockWriteComplete ==
  /\ \A regs \in {"ICER", "ICPR"} :
       \A k \in StoresIn(regs) :
         /\ trace[k][2] \in 0 .. nregs - 1
         /\ Cardinality(StoresTo(regs, trace[k][2])) = 1
  /\ pc \in {"icpr", "enable_irq", "set_msp", "jump"} \cup Transferred =>
       BlockWritten("ICER")
  /\ pc \in {"enable_irq", "set_msp", "jump"} \cup Transferred =>
       BlockWritten("ICPR")

C9_Witness ==
  /\ pc = "enable_irq"
  /\ nregs = 32
  /\ Cardinality(StoresIn("ICER")) = 32
  /\ Cardinality(StoresIn("ICPR")) = 32

\* C10: the enable-clear step and the pending-clear step, applied a second
\* time to a block that is already cleared, leave every register of the
\* block cleared.
C10_SecondClearKeepsCleared ==
  /\ [](pc \in {"t_enable2", "t_pending1", "t_pending2", "t_done"} =>
          AllClear(nvicEnable))
  /\ [](pc \in {"t_pending2", "t_done"} => AllClear(nvicPending))
  /\ [][(pc = "t_enable2" \/ pc = "t_pending2") =>
          (nvicEnable' = nvicEnable /\ nvicPending' = nvicPending)]_vars

C10_Witness ==
  /\ pc = "t_done"
  /\ nregs = 8
  /\ Cardinality(StoresIn("ICER")) = 16
  /\ Cardinality(StoresIn("ICPR")) = 16
  /\ AllClear(nvicEnable)
  /\ AllClear(nvicPending)

\* The kinds of side effect of one call on blocks of n registers, in order.
OpShape(n) ==
  <<"CPSID", "CTRL">> \o [k \in 1 .. n |-> "ICER"] \o [k \in 1 .. n |-> "ICPR"]
    \o <<"CPSIE", "MSP", "JUMP">>

\* C11: vJumpToDFU validates nothing and has no error outcome: for every
\* descriptor, 0 and implausible addresses included, it never returns early,
\* the kinds of its side effects are the same and depend on no descriptor
\* value, and it sets the stack pointer to d[0] and transfers to d[1].
C11_NoValidation ==
  /\ pc # "returned"
  /\ IsPrefix([k \in DOMAIN trace |-> trace[k][1]], OpShape(nregs))
  /\ pc \in Transferred =>
       /\ Len(trace) = 2 * nregs + 5
       /\ msp = desc[1]
       /\ jumpTarget = desc[2]

C11_Witness ==
  /\ pc = "dest"
  /\ desc = <<0, 0>>
  /\ msp = 0
  /\ jumpTarget = 0
  /\ Len(trace) = 2 * nregs + 5

\* The kinds of side effect vJumpToDFU has.
AllowedOps == {"CPSID", "CTRL", "ICER", "ICPR", "CPSIE", "MSP", "JUMP"}

\* This step is a side effect of kind op of the operation.
EffectStep(op) == trace' # trace /\ trace'[Len(trace')][1] = op

\* C12: vJumpToDFU writes the interrupt mask, SysTick->CTRL, the enable and
\* pending state through ICER and ICPR, and the main stack pointer, each in
\* its own step only; no step of it writes the descriptor's words,
\* SysTick->LOAD, the pending SysTick exception or any other register.
C12_FrameOfOperation ==
  /\ [](\A k \in DOMAIN trace : trace[k][1] \in AllowedOps)
  /\ [][(pc' # pc \/ trace' # trace) =>
          /\ mem' = mem
          /\ desc' = desc
          /\ sysTickLoad' = sysTickLoad
          /\ tickPending' = tickPending
          /\ EffectStep("CPSID") \/ EffectStep("CPSIE") \/ primask' = primask
          /\ EffectStep("CTRL") \/ ctrl' = ctrl
          /\ EffectStep("ICER") \/ nvicEnable' = nvicEnable
          /\ EffectStep("ICPR") \/ nvicPending' = nvicPending
          /\ EffectStep("MSP") \/ msp' = msp
          /\ EffectStep("JUMP") \/ jumpTarget' = jumpTarget]_vars

C12_Witness ==
  /\ pc = "dest"
  /\ desc = <<ExampleMSP, ExamplePC>>
  /\ mem = desc
  /\ sysTickLoad = ReloadAtCall
  /\ entryMask = 0
  /\ msp = ExampleMSP
  /\ <<"SysTick", "set_msp">> \in handlerLog

\* The enable block after the stores of WR_ALL_REGS(regs, data) from index a
\* on, in ascending order.
RECURSIVE EnableAscending(_, _, _, _)
EnableAscending(block, regs, data, a) ==
  IF LoopCond(a, Cardinality(DOMAIN block))
    THEN EnableAscending([block EXCEPT ![a] = EnableAfter(regs, @, data)],
                         regs, data, a + 1)
    ELSE block

\* The pending block after the same stores.
RECURSIVE PendingAscending(_, _, _, _)
PendingAscending(block, regs, data, a) ==
  IF LoopCond(a, Cardinality(DOMAIN block))
    THEN PendingAscending([block EXCEPT ![a] = PendingAfter(regs, @, data)],
                          regs, data, a + 1)
    ELSE block

\* C13: whatever the order of the N stores of a block write, the block
\* ends with the contents the ascending order of the code gives.
C13_AnyOrderSameResult ==
  /\ pc \in {"p_pending", "p_done"} =>
       nvicEnable = EnableAscending(permStart.enable, EnableClearRegs, AllOnes, 0)
  /\ pc = "p_done" =>
       nvicPending = PendingAscending(permStart.pending, PendingClearRegs, AllOnes, 0)

C13_Witness ==
  /\ pc = "p_done"
  /\ nregs = 3
  /\ permStart.enable[1] # Zero
  /\ trace[1][2] = 2
  /\ trace[2][2] = 0
  /\ trace[4][2] = 1

\* The control transfers made so far.
Transfers == Cardinality({k \in DOMAIN trace : trace[k][1] = "JUMP"})

\* C14: every call reaches the control transfer and makes it exactly once;
\* each block-write loop ends, and the trailing loop is entered only after
\* the transfer.
C14_ReachesTransferOnce ==
  /\ <>(pc = "dest")
  /\ (pc = "icer") ~> (pc = "icpr")
  /\ (pc = "icpr") ~> (pc = "enable_irq")
  /\ [](Transfers = IF pc \in Transferred THEN 1 ELSE 0)
  /\ [](pc = "loop" => jumpTarget # -1)

C14_Witness ==
  /\ pc = "dest"
  /\ nregs = 32
  /\ Transfers = 1
  /\ entryMask = 0
  /\ <<"SysTick", "disable_irq">> \in handlerLog

\* C15: up to the control transfer no step enables an interrupt line or
\* SysTick, no statement of the operation sets a pending bit, and what step
\* 2 and step 3 have cleared is still clear at every later statement.
C15_EnabledSetNeverGrows ==
  /\ [][pc \notin Transferred =>
          /\ \A i \in DOMAIN nvicEnable : nvicEnable'[i] \subseteq nvicEnable[i]
          /\ (ctrl' \cap CtrlEnable) \subseteq ctrl
          /\ (pc' # pc \/ trace' # trace) =>
               \A i \in DOMAIN nvicPending :
                 nvicPending'[i] \subseteq nvicPending[i]]_vars
  /\ [](pc = "icer" => \A i \in 0 .. addr - 1 : nvicEnable[i] = Zero)
  /\ [](pc \in {"icer", "icpr", "enable_irq", "set_msp", "jump"} => ctrl = Zero)
  /\ [](pc \in {"icpr", "enable_irq", "set_msp", "jump"} => AllClear(nvicEnable))

C15_Witness ==
  /\ pc = "icer"
  /\ nregs = 32
  /\ addr = 1
  /\ nvicEnable[0] = Zero
  /\ nvicEnable[1] = AllOnes
  /\ raises = 1
  /\ \E i \in DOMAIN nvicPending : nvicPending[i] # Zero

====
